---- MODULE Spec2Model ----
(***************************************************************************)
(* Refresh-token rotation and session invalidation of the REST backend:    *)
(* UsersController (generateTokens, verifyRefreshToken) and the routes     *)
(* POST /users/register, /login, /logout and /refresh-token.               *)
(*                                                                         *)
(* Every request is one atomic action (requests are issued one after the   *)
(* other, each awaited before the next is sent).  Time is counted in whole *)
(* seconds, the resolution of the iat and exp fields of a JSON web token.  *)
(*                                                                         *)
(* Spec      the four credential routes and the reset between tests        *)
(* SpecApp   the same routes with the body of each request recorded        *)
(* SpecAuth  a session over time, with PUT /users behind authenticate      *)
(* SpecSession  sessions that end by logout or revocation, and PUT /users  *)
(* SpecEnv   sessions under equal and unequal validity windows             *)
(* SpecConc  refresh-token requests whose database accesses interleave     *)
(* SpecRace  login, refresh-token and logout requests of one user, each    *)
(*           database access and the response a step of its own            *)
(* SpecRecover  a user with a session: reuse, revocation, the next login   *)
(* SpecPosts  two users with sessions: posts, comments and likes           *)
(* SpecFrame  one client calling every route, credential and resource      *)
(* SpecTwoUsers  two users with sessions who log in, rotate and log out    *)
(* SpecGame  the App component: cell clicks and restarts                   *)
(***************************************************************************)
EXTENDS Integers, Sequences, FiniteSets, Bags, TLC

VARIABLES users, nextId, nextRandom, now, env, issued, consumed, invalidated,
          revoked, resp, req, rotated, procs, db, board, turn

\* the two states of the App component
game == <<board, turn>>

vars == <<users, nextId, nextRandom, now, env, issued, consumed, invalidated,
          revoked, resp, req, rotated, procs, db, game>>

\* the request just served and the history of rotations (req, rotated) are
\* kept by the specification of the authenticated routes, the requests in
\* flight (procs) by the specification of concurrent requests, the posts,
\* comments and likes collections (db) by that of the resource routes, the
\* board and the turn (game) by that of the App component
others == <<req, rotated, procs, db, game>>

(***************************************************************************)
(* Bounds of the model.                                                    *)
(***************************************************************************)
MaxTime == 2
MaxMint == 2
MaxUsers == 1
MaxDocs == 1

(***************************************************************************)
(* Request inputs.                                                         *)
(***************************************************************************)
undefined == "undefined"
Usernames == {"TestUser"}
testPassword == "testPassword"
Passwords == {testPassword, "testPassworda"}
testEmail == "test@user.com"

\* multipart bodies of POST /users/register: complete with a png avatar,
\* complete with an unsupported file type, and with one field missing
RegisterBodies ==
  LET full == [username |-> "TestUser", password |-> testPassword,
               email |-> testEmail, file |-> "image/png"] IN
  {full, [full EXCEPT !.file = "image/gif"]}
    \cup {[full EXCEPT ![f] = undefined] : f \in {"username", "password", "email", "file"}}

(***************************************************************************)
(* The environment: process.env.TOKEN_SECRET and the two expiresIn values. *)
(***************************************************************************)
TOKEN_SECRET == "TOKEN_SECRET"
Envs == {[ACCESS_TOKEN_EXPIRES |-> 1, REFRESH_TOKEN_EXPIRES |-> 2]}

(***************************************************************************)
(* HTTP results.  NoResponse: the handler never calls res.send.            *)
(***************************************************************************)
NoResponse == 0

\* the refreshToken of a body that has none (undefined), and the token fields
\* of a response that carries none
NoToken == [_id |-> 0, random |-> 0, iat |-> 0, exp |-> 0, sig |-> "none"]

(***************************************************************************)
(* Token codec (jsonwebtoken).  A token is its payload {_id, random, iat,  *)
(* exp} and the secret its signature was made with: two tokens are the     *)
(* same string exactly when these agree.                                   *)
(***************************************************************************)
Sign(_id, random, iat, expiresIn) ==
  [_id |-> _id, random |-> random, iat |-> iat, exp |-> iat + expiresIn,
   sig |-> TOKEN_SECRET]

Malformed == [_id |-> 0, random |-> 0, iat |-> 0, exp |-> 0, sig |-> "malformed"]

WrongSecret(_id) ==
  [_id |-> _id, random |-> 0, iat |-> 0, exp |-> MaxTime + 1, sig |-> "OTHER_SECRET"]

\* a verification that still accepts a token at the second of its expiry
JwtVerifyErr_Late(token, secret, clock) ==
  \/ token.sig = "malformed"
  \/ token.sig # secret
  \/ clock > token.exp

\* jwt.verify(token, secret, cb): err is set for a malformed token, a bad
\* signature, and a token whose exp is not after the clock
JwtVerifyErr(token, secret, clock) ==
  \/ token.sig = "malformed"
  \/ token.sig # secret
  \/ clock >= token.exp

\* a nonce that is the same in every call
MathRandom_Constant(counter) == 0

\* const random = Math.random(): a value no earlier call returned
MathRandom(counter) == counter

\* an access token signed without a window: it expires as it is minted
generateTokens_NoWindow(_id, random, clock, e) ==
  [accessToken  |-> Sign(_id, random, clock, 0),
   refreshToken |-> Sign(_id, random, clock, e.REFRESH_TOKEN_EXPIRES)]

generateTokens(_id, random, clock, e) ==
  [accessToken  |-> Sign(_id, random, clock, e.ACCESS_TOKEN_EXPIRES),
   refreshToken |-> Sign(_id, random, clock, e.REFRESH_TOKEN_EXPIRES)]

(***************************************************************************)
(* Credential store (mongoose userModel).                                  *)
(***************************************************************************)
EmptyStore == [id \in {} |-> 0]
null == 0

\* the set of a user's live tokens
LiveSet(store, id) == {store[id].tokens[i] : i \in 1..Len(store[id].tokens)}

\* the token is in some live set of the store
LiveAnywhere(token) == \E id \in DOMAIN users : token \in LiveSet(users, id)

\* BaseController.findById
\* a lookup that ignores the id and returns the first document of the store
findById_First(store, id) ==
  IF store = EmptyStore THEN null
  ELSE CHOOSE i \in DOMAIN store : \A j \in DOMAIN store : i <= j

findById(store, id) == IF id \in DOMAIN store THEN id ELSE null

\* UsersController.findOneByUsername (username is unique)
findOneByUsername(store, username) ==
  IF \E id \in DOMAIN store : store[id].username = username
  THEN CHOOSE id \in DOMAIN store : store[id].username = username
  ELSE null

\* bcrypt.hash / bcrypt.compare
BcryptHash(password) == <<"bcrypt", password>>

\* a comparison that accepts every password
BcryptCompare_Always(password, hash) == TRUE

BcryptCompare(password, hash) == hash = BcryptHash(password)

\* user.tokens.includes(refreshToken)
Includes(tokens, token) == \E i \in 1..Len(tokens) : tokens[i] = token

\* a reuse branch that forgets to empty the set
Invalidate_Keep(user) == user

\* a reuse branch that drops one token instead of all
Invalidate_Pop(user) ==
  [user EXCEPT !.tokens = IF @ = <<>> THEN @ ELSE SubSeq(@, 1, Len(@) - 1)]

\* user.tokens = []   (invalidate user tokens)
Invalidate(user) == [user EXCEPT !.tokens = <<>>]

\* a filter whose predicate is always true: nothing is removed
FilterTokens_KeepAll(tokens, refreshToken) == tokens

\* a filter with the comparison inverted: only the presented token is kept
FilterTokens_Inverted(tokens, refreshToken) ==
  SelectSeq(tokens, LAMBDA token : token = refreshToken)

\* user.tokens.filter((token) => token !== refreshToken)
FilterTokens(tokens, refreshToken) ==
  SelectSeq(tokens, LAMBDA token : token # refreshToken)

\* an assignment in place of the push: the new token replaces the set
PushToken_Replace(tokens, refreshToken) == <<refreshToken>>

\* user.tokens.push(refreshToken)
PushToken(tokens, refreshToken) == Append(tokens, refreshToken)

\* verifyRefreshToken without the `reject('fail')` of the user === null branch
verifyRefreshToken_NoReject(store, refreshToken, clock) ==
  IF JwtVerifyErr(refreshToken, TOKEN_SECRET, clock)
  THEN [settled |-> "pending", store |-> store, user |-> null]
  ELSE LET user == findById(store, refreshToken._id) IN
    IF user = null
    THEN [settled |-> "pending", store |-> store, user |-> null]
    ELSE IF ~Includes(store[user].tokens, refreshToken)
    THEN [settled |-> "reject",
          store |-> [store EXCEPT ![user] = Invalidate(@)],
          user |-> user]
    ELSE [settled |-> "resolve",
          store |-> [store EXCEPT ![user].tokens = FilterTokens(@, refreshToken)],
          user |-> user]

(***************************************************************************)
(* UsersController.verifyRefreshToken.  The result says how the promise    *)
(* settles and what the store holds afterwards.  When jwt.verify reports   *)
(* an error, userInfo is undefined and `userInfo._id` throws inside the    *)
(* async callback, before the try block: the promise is never settled.     *)
(***************************************************************************)
verifyRefreshToken(store, refreshToken, clock) ==
  IF JwtVerifyErr(refreshToken, TOKEN_SECRET, clock)
  THEN [settled |-> "pending", store |-> store, user |-> null]
  ELSE LET user == findById(store, refreshToken._id) IN
    IF user = null
    THEN [settled |-> "reject", store |-> store, user |-> null]
    ELSE IF ~Includes(store[user].tokens, refreshToken)
    THEN [settled |-> "reject",
          store |-> [store EXCEPT ![user] = Invalidate(@)],
          user |-> user]
    ELSE [settled |-> "resolve",
          store |-> [store EXCEPT ![user].tokens = FilterTokens(@, refreshToken)],
          user |-> user]

(***************************************************************************)
(* What a client can put in a request body: every token a response has     *)
(* carried, and tokens the server never made.                              *)
(***************************************************************************)
Forged == {Malformed, WrongSecret(1)}
Presentable == issued \cup Forged

(***************************************************************************)
(* The last request and its response: the operation, the status sent       *)
(* (NoResponse when none is), the token of the request body, the body of   *)
(* a 200 response, and what held when the request arrived: the store       *)
(* (before), whether jwt.verify accepted the token (verified), whether the *)
(* token had been consumed and whether its user's set had been revoked.    *)
(***************************************************************************)
Response(op, status, token) ==
  [op |-> op, status |-> status, token |-> token,
   accessToken |-> NoToken, refreshToken |-> NoToken, _id |-> null,
   before |-> users,
   verified |-> token # NoToken /\ ~JwtVerifyErr(token, TOKEN_SECRET, now),
   wasConsumed |-> token \in consumed,
   wasRevoked |-> token._id \in revoked]

\* no Authorization header
NoHeader == [present |-> FALSE, scheme |-> "", words |-> <<>>]

\* the inputs of the last request: the body and the Authorization header;
\* for a route behind authenticate also the clock when the middleware ran
\* (at), whether the route handler was run, and the _id of the req.user it
\* saw (null when it was not set); for a login, whether the live set of the
\* user named had been emptied by a reuse detection and not used since
Request(op, username, password, email, file, authorization) ==
  [op |-> op, username |-> username, password |-> password, email |-> email,
   file |-> file, authorization |-> authorization, at |-> 0,
   handled |-> FALSE, user |-> null, wasRevoked |-> FALSE]

NoRequest == Request("none", undefined, undefined, undefined, undefined, NoHeader)

\* the clients whose requests can be in flight together; procs maps each
\* client that has sent a request to the state of that request
Clients == {1, 2}
NoRequests == [c \in {} |-> 0]
Received(token) ==
  [pc |-> "received", token |-> token, user |-> null, tokens |-> <<>>,
   __v |-> 0, status |-> NoResponse, refreshToken |-> NoToken]

\* the posts, comments and likes collections, and the ObjectIds the posts
\* and comments created next will get
EmptyDb ==
  [posts |-> EmptyStore, comments |-> EmptyStore, likes |-> EmptyBag,
   nextPost |-> 1, nextComment |-> 1]

(***************************************************************************)
(* The state of the App component: the board, nine cells indexed from 0,   *)
(* each null or the mark of a player, and the player whose turn it is.     *)
(***************************************************************************)
Player == {"X", "O"}
nullCell == "null"
defaultBoard == [idx \in 0..8 |-> nullCell]
defaultPlayer == "X"

Init ==
  /\ users = EmptyStore
  /\ nextId = 1
  /\ nextRandom = 1
  /\ now = 0
  /\ env \in Envs
  /\ issued = {}
  /\ consumed = {}
  /\ invalidated = {}
  /\ revoked = {}
  /\ resp = Response("none", NoResponse, NoToken)
  /\ req = NoRequest
  /\ rotated = {}
  /\ procs = NoRequests
  /\ db = EmptyDb
  /\ board = defaultBoard
  /\ turn = defaultPlayer

\* a register that answers a taken username like a missing argument
Register_Conflict400(username, password, email, file) ==
  IF username = undefined \/ password = undefined \/ email = undefined
     \/ file = undefined
  THEN /\ resp' = Response("register", 400, NoToken)
       /\ UNCHANGED <<users, nextId, nextRandom, now, env, issued, consumed,
                      invalidated, revoked>>
  ELSE IF file # "image/png" /\ file # "image/jpeg"
  THEN /\ resp' = Response("register", 400, NoToken)
       /\ UNCHANGED <<users, nextId, nextRandom, now, env, issued, consumed,
                      invalidated, revoked>>
  ELSE IF findOneByUsername(users, username) # null
  THEN /\ resp' = Response("register", 400, NoToken)
       /\ UNCHANGED <<users, nextId, nextRandom, now, env, issued, consumed,
                      invalidated, revoked>>
  ELSE /\ nextId <= MaxUsers
       /\ users' = users @@ (nextId :> [username |-> username,
                                        password |-> BcryptHash(password),
                                        email |-> email,
                                        avatar |-> file,
                                        tokens |-> <<>>])
       /\ nextId' = nextId + 1
       /\ resp' = [Response("register", 201, NoToken) EXCEPT !._id = nextId]
       /\ UNCHANGED <<nextRandom, now, env, issued, consumed, invalidated, revoked>>

\* POST /users/register
Register(username, password, email, file) ==
  IF username = undefined \/ password = undefined \/ email = undefined
     \/ file = undefined
  THEN /\ resp' = Response("register", 400, NoToken)
       /\ UNCHANGED <<users, nextId, nextRandom, now, env, issued, consumed,
                      invalidated, revoked>>
  ELSE IF file # "image/png" /\ file # "image/jpeg"
  THEN /\ resp' = Response("register", 400, NoToken)
       /\ UNCHANGED <<users, nextId, nextRandom, now, env, issued, consumed,
                      invalidated, revoked>>
  ELSE IF findOneByUsername(users, username) # null
  THEN /\ resp' = Response("register", 409, NoToken)
       /\ UNCHANGED <<users, nextId, nextRandom, now, env, issued, consumed,
                      invalidated, revoked>>
  ELSE /\ nextId <= MaxUsers
       /\ users' = users @@ (nextId :> [username |-> username,
                                        password |-> BcryptHash(password),
                                        email |-> email,
                                        avatar |-> file,
                                        tokens |-> <<>>])
       /\ nextId' = nextId + 1
       /\ resp' = [Response("register", 201, NoToken) EXCEPT !._id = nextId]
       /\ UNCHANGED <<nextRandom, now, env, issued, consumed, invalidated, revoked>>

\* a login without the check for missing arguments
Login_NoMissingCheck(username, password) ==
  LET user == findOneByUsername(users, username) IN
    IF user = null
    THEN /\ resp' = Response("login", 401, NoToken)
         /\ UNCHANGED <<users, nextId, nextRandom, now, env, issued, consumed,
                        invalidated, revoked>>
    ELSE IF ~BcryptCompare(password, users[user].password)
    THEN /\ resp' = Response("login", 401, NoToken)
         /\ UNCHANGED <<users, nextId, nextRandom, now, env, issued, consumed,
                        invalidated, revoked>>
    ELSE LET t == generateTokens(user, MathRandom(nextRandom), now, env) IN
         /\ nextRandom <= MaxMint
         /\ nextRandom' = nextRandom + 1
         /\ users' = [users EXCEPT ![user].tokens = PushToken(@, t.refreshToken)]
         /\ issued' = issued \cup {t.accessToken, t.refreshToken}
         /\ revoked' = revoked \ {user}
         /\ resp' = [Response("login", 200, NoToken) EXCEPT
                       !.accessToken = t.accessToken,
                       !.refreshToken = t.refreshToken,
                       !._id = user]
         /\ UNCHANGED <<nextId, now, env, consumed, invalidated>>

\* a login that keeps a user locked out after a reuse detection
Login_LockedOut(username, password) ==
  IF username = undefined \/ password = undefined
  THEN /\ resp' = Response("login", 400, NoToken)
       /\ UNCHANGED <<users, nextId, nextRandom, now, env, issued, consumed,
                      invalidated, revoked>>
  ELSE LET user == findOneByUsername(users, username) IN
    IF user = null \/ user \in revoked
    THEN /\ resp' = Response("login", 401, NoToken)
         /\ UNCHANGED <<users, nextId, nextRandom, now, env, issued, consumed,
                        invalidated, revoked>>
    ELSE IF ~BcryptCompare(password, users[user].password)
    THEN /\ resp' = Response("login", 401, NoToken)
         /\ UNCHANGED <<users, nextId, nextRandom, now, env, issued, consumed,
                        invalidated, revoked>>
    ELSE LET t == generateTokens(user, MathRandom(nextRandom), now, env) IN
         /\ nextRandom <= MaxMint
         /\ nextRandom' = nextRandom + 1
         /\ users' = [users EXCEPT ![user].tokens = PushToken(@, t.refreshToken)]
         /\ issued' = issued \cup {t.accessToken, t.refreshToken}
         /\ revoked' = revoked \ {user}
         /\ resp' = [Response("login", 200, NoToken) EXCEPT
                       !.accessToken = t.accessToken,
                       !.refreshToken = t.refreshToken,
                       !._id = user]
         /\ UNCHANGED <<nextId, now, env, consumed, invalidated>>

\* POST /users/login
Login(username, password) ==
  IF username = undefined \/ password = undefined
  THEN /\ resp' = Response("login", 400, NoToken)
       /\ UNCHANGED <<users, nextId, nextRandom, now, env, issued, consumed,
                      invalidated, revoked>>
  ELSE LET user == findOneByUsername(users, username) IN
    IF user = null
    THEN /\ resp' = Response("login", 401, NoToken)
         /\ UNCHANGED <<users, nextId, nextRandom, now, env, issued, consumed,
                        invalidated, revoked>>
    ELSE IF ~BcryptCompare(password, users[user].password)
    THEN /\ resp' = Response("login", 401, NoToken)
         /\ UNCHANGED <<users, nextId, nextRandom, now, env, issued, consumed,
                        invalidated, revoked>>
    ELSE LET t == generateTokens(user, MathRandom(nextRandom), now, env) IN
         /\ nextRandom <= MaxMint
         /\ nextRandom' = nextRandom + 1
         /\ users' = [users EXCEPT ![user].tokens = PushToken(@, t.refreshToken)]
         /\ issued' = issued \cup {t.accessToken, t.refreshToken}
         /\ revoked' = revoked \ {user}
         /\ resp' = [Response("login", 200, NoToken) EXCEPT
                       !.accessToken = t.accessToken,
                       !.refreshToken = t.refreshToken,
                       !._id = user]
         /\ UNCHANGED <<nextId, now, env, consumed, invalidated>>

\* the tokens a request struck from the live sets without their being presented
Struck(store, after, token) ==
  UNION {LiveSet(store, id) \ (LiveSet(after, id) \cup {token}) : id \in DOMAIN store}

\* POST /users/logout
Logout(refreshToken) ==
  IF refreshToken = NoToken
  THEN /\ resp' = Response("logout", 400, NoToken)
       /\ UNCHANGED <<users, nextId, nextRandom, now, env, issued, consumed,
                      invalidated, revoked>>
  ELSE LET v == verifyRefreshToken(users, refreshToken, now) IN
       /\ users' = v.store
       /\ consumed' = IF v.settled = "resolve" THEN consumed \cup {refreshToken}
                      ELSE consumed
       /\ invalidated' = invalidated \cup Struck(users, v.store, refreshToken)
       /\ revoked' = IF v.settled = "reject" /\ v.user # null
                     THEN revoked \cup {v.user} ELSE revoked
       /\ resp' = Response("logout",
                           CASE v.settled = "resolve" -> 200
                             [] v.settled = "reject" -> 403
                             [] OTHER -> NoResponse,
                           refreshToken)
       /\ UNCHANGED <<nextId, nextRandom, now, env, issued>>

\* POST /users/refresh-token
RefreshToken(oldRefreshToken) ==
  IF oldRefreshToken = NoToken
  THEN /\ resp' = Response("refresh", 400, NoToken)
       /\ UNCHANGED <<users, nextId, nextRandom, now, env, issued, consumed,
                      invalidated, revoked>>
  ELSE LET v == verifyRefreshToken(users, oldRefreshToken, now) IN
    IF v.settled = "resolve"
    THEN LET t == generateTokens(v.user, MathRandom(nextRandom), now, env) IN
         /\ nextRandom <= MaxMint
         /\ nextRandom' = nextRandom + 1
         /\ users' = [v.store EXCEPT ![v.user].tokens = PushToken(@, t.refreshToken)]
         /\ issued' = issued \cup {t.accessToken, t.refreshToken}
         /\ consumed' = consumed \cup {oldRefreshToken}
         /\ invalidated' = invalidated \cup Struck(users, v.store, oldRefreshToken)
         /\ resp' = [Response("refresh", 200, oldRefreshToken) EXCEPT
                       !.accessToken = t.accessToken,
                       !.refreshToken = t.refreshToken,
                       !._id = v.user]
         /\ UNCHANGED <<nextId, now, env, revoked>>
    ELSE /\ users' = v.store
         /\ invalidated' = invalidated \cup Struck(users, v.store, oldRefreshToken)
         /\ revoked' = IF v.settled = "reject" /\ v.user # null
                       THEN revoked \cup {v.user} ELSE revoked
         /\ resp' = Response("refresh",
                             IF v.settled = "reject" THEN 403 ELSE NoResponse,
                             oldRefreshToken)
         /\ UNCHANGED <<nextId, nextRandom, now, env, issued, consumed>>

\* userModel.deleteMany(): the reset between test cases
DeleteMany ==
  /\ users # EmptyStore
  /\ users' = EmptyStore
  /\ revoked' = {}
  /\ resp' = Response("deleteMany", NoResponse, NoToken)
  /\ UNCHANGED <<nextId, nextRandom, now, env, issued, consumed, invalidated>>

\* a second of wall-clock time passes
Tick ==
  /\ now < MaxTime
  /\ now' = now + 1
  /\ UNCHANGED <<users, nextId, nextRandom, env, issued, consumed, invalidated,
                 revoked, resp>>

Next ==
  \/ \E body \in RegisterBodies :
       Register(body.username, body.password, body.email, body.file)
         /\ UNCHANGED others
  \/ \E username \in Usernames \cup {undefined},
        password \in Passwords \cup {undefined} :
       Login(username, password) /\ UNCHANGED others
  \/ \E refreshToken \in Presentable \cup {NoToken} :
       Logout(refreshToken) /\ UNCHANGED others
  \/ \E oldRefreshToken \in Presentable \cup {NoToken} :
       RefreshToken(oldRefreshToken) /\ UNCHANGED others
  \/ DeleteMany /\ UNCHANGED others
  \/ Tick /\ UNCHANGED others

Spec == Init /\ [][Next]_vars

(***************************************************************************)
(* The authenticate middleware and a route behind it, PUT /users.  The     *)
(* value of an Authorization header is absent, the empty string, or a      *)
(* scheme followed by words.                                               *)
(***************************************************************************)
Header(scheme, words) == [present |-> TRUE, scheme |-> scheme, words |-> words]

\* the empty string as a token: jwt.verify answers 'jwt must be provided'
EmptyString == [_id |-> 0, random |-> 0, iat |-> 0, exp |-> 0, sig |-> "empty"]

\* authHeaders && authHeaders.split(' ')[1]: undefined when there is no
\* header or no second word, the header itself when it is the empty string
SplitToken(authHeaders) ==
  IF ~authHeaders.present THEN NoToken
  ELSE IF authHeaders.scheme = "" /\ authHeaders.words = <<>> THEN EmptyString
  ELSE IF Len(authHeaders.words) >= 1 THEN authHeaders.words[1]
  ELSE NoToken

\* the response statuses of the error that authenticate hands to next(err)
Unauthorized == 401
Forbidden == 403
\* next() without an error: the route handler runs
Pass == 0

\* a callback that does not look at err
authenticate_NoErrCheck(authorization, clock) ==
  LET token == SplitToken(authorization) IN
  IF token = NoToken THEN [status |-> Unauthorized, user |-> null]
  ELSE [status |-> Pass, user |-> token._id]

\* a middleware that also wants a live token of the user in the store
authenticate_Stateful(authorization, clock) ==
  LET token == SplitToken(authorization) IN
  IF token = NoToken THEN [status |-> Unauthorized, user |-> null]
  ELSE IF JwtVerifyErr(token, TOKEN_SECRET, clock)
          \/ token._id \notin DOMAIN users \/ users[token._id].tokens = <<>>
  THEN [status |-> Forbidden, user |-> null]
  ELSE [status |-> Pass, user |-> token._id]

\* a middleware that wants a token with the window of an access token
authenticate_AccessOnly(authorization, clock) ==
  LET token == SplitToken(authorization) IN
  IF token = NoToken THEN [status |-> Unauthorized, user |-> null]
  ELSE IF JwtVerifyErr(token, TOKEN_SECRET, clock)
          \/ token.exp - token.iat # env.ACCESS_TOKEN_EXPIRES
  THEN [status |-> Forbidden, user |-> null]
  ELSE [status |-> Pass, user |-> token._id]

\* middleware/auth.ts: the status of the error passed on, or Pass and the
\* _id of the payload patched to req.user
authenticate(authorization, clock) ==
  LET token == SplitToken(authorization) IN
  IF token = NoToken THEN [status |-> Unauthorized, user |-> null]
  ELSE IF JwtVerifyErr(token, TOKEN_SECRET, clock)
  THEN [status |-> Forbidden, user |-> null]
  ELSE [status |-> Pass, user |-> token._id]

\* an update that replaces the document: the fields not in params are reset
update_Replace(store, id, username, file) ==
  IF id \notin DOMAIN store THEN store
  ELSE [store EXCEPT
          ![id].username = IF username = undefined THEN @ ELSE username,
          ![id].avatar = IF file = undefined THEN @ ELSE file,
          ![id].tokens = <<>>]

\* BaseController.update: findByIdAndUpdate(id, params)
update(store, id, username, file) ==
  IF id \notin DOMAIN store THEN store
  ELSE [store EXCEPT
          ![id].username = IF username = undefined THEN @ ELSE username,
          ![id].avatar = IF file = undefined THEN @ ELSE file]

\* the Authorization headers a client can send
Headers ==
  {NoHeader, Header("", <<>>), Header("JWT", <<>>)}
    \cup {Header("JWT", <<token>>) : token \in issued \cup {WrongSecret(1)}}

AppUsernames == Usernames \cup {"OtherTestUser"}

\* bodies of PUT /users: nothing, a new avatar
PutBodies ==
  {[username |-> undefined, file |-> undefined],
   [username |-> undefined, file |-> "image/jpeg"]}

\* PUT /users
PutUser(authorization, username, file) ==
  LET a == authenticate(authorization, now)
      token == SplitToken(authorization)
      r == Request("putUser", username, undefined, undefined, file, authorization)
  IN
  /\ UNCHANGED <<nextId, nextRandom, now, env, issued, consumed, invalidated,
                 revoked, rotated, procs, db, game>>
  /\ IF a.status # Pass
     THEN /\ resp' = Response("putUser", a.status, token)
          /\ req' = [r EXCEPT !.at = now]
          /\ UNCHANGED users
     ELSE /\ req' = [r EXCEPT !.at = now, !.handled = TRUE, !.user = a.user]
          /\ IF username = undefined /\ file = undefined
             THEN resp' = Response("putUser", 400, token) /\ UNCHANGED users
             ELSE IF username # undefined /\ findOneByUsername(users, username) # null
             THEN resp' = Response("putUser", 409, token) /\ UNCHANGED users
             ELSE /\ users' = update(users, a.user, username, file)
                  /\ resp' = [Response("putUser", 200, token) EXCEPT
                                !._id = findById(users, a.user)]

(***************************************************************************)
(* The requests of the users routes with their inputs recorded in req.     *)
(***************************************************************************)
AppRegister(body) ==
  /\ Register(body.username, body.password, body.email, body.file)
  /\ req' = Request("register", body.username, body.password, body.email,
                    body.file, NoHeader)
  /\ UNCHANGED <<rotated, procs, db, game>>

AppLogin(username, password) ==
  /\ Login(username, password)
  /\ req' = [Request("login", username, password, undefined, undefined, NoHeader)
               EXCEPT !.wasRevoked =
                 \E id \in revoked : users[id].username = username]
  /\ UNCHANGED <<rotated, procs, db, game>>

AppLogout(refreshToken) ==
  /\ Logout(refreshToken)
  /\ req' = Request("logout", undefined, undefined, undefined, undefined, NoHeader)
  /\ UNCHANGED <<rotated, procs, db, game>>

\* rotated: for each 200 of refresh-token, the token presented and the
\* two tokens of the response
AppRefreshToken(oldRefreshToken) ==
  /\ RefreshToken(oldRefreshToken)
  /\ req' = Request("refresh", undefined, undefined, undefined, undefined, NoHeader)
  /\ rotated' = IF resp'.status = 200
                THEN rotated \cup {[old |-> oldRefreshToken,
                                    accessToken |-> resp'.accessToken,
                                    refreshToken |-> resp'.refreshToken,
                                    at |-> now]}
                ELSE rotated
  /\ UNCHANGED <<procs, db, game>>

\* the credential requests, one after the other
AppNext ==
  \/ \E body \in RegisterBodies : AppRegister(body)
  \/ \E username \in AppUsernames \cup {undefined},
        password \in Passwords \cup {undefined} :
       AppLogin(username, password)
  \/ \E refreshToken \in Presentable \cup {NoToken} : AppLogout(refreshToken)
  \/ \E oldRefreshToken \in Presentable \cup {NoToken} :
       AppRefreshToken(oldRefreshToken)
  \/ DeleteMany /\ UNCHANGED others

SpecApp == Init /\ [][AppNext]_vars

\* the complete register body of the tests
FullBody == CHOOSE body \in RegisterBodies :
              body.file = "image/png" /\ undefined \notin
                {body.username, body.password, body.email}

\* a client that registers, logs in, rotates its session and calls PUT /users
\* while time passes
AuthNext ==
  \/ AppRegister(FullBody)
  \/ \E username \in Usernames : AppLogin(username, testPassword)
  \/ \E oldRefreshToken \in issued : AppRefreshToken(oldRefreshToken)
  \/ \E authorization \in Headers, body \in PutBodies :
       PutUser(authorization, body.username, body.file)
  \/ Tick /\ UNCHANGED others

SpecAuth == Init /\ [][AuthNext]_vars

\* a client that also logs out, and calls PUT /users with the tokens of
\* sessions that are over; no time passes
SessionNext ==
  \/ AppRegister(FullBody)
  \/ \E username \in Usernames : AppLogin(username, testPassword)
  \/ \E refreshToken \in issued : AppLogout(refreshToken)
  \/ \E oldRefreshToken \in issued : AppRefreshToken(oldRefreshToken)
  \/ \E authorization \in Headers, body \in PutBodies :
       PutUser(authorization, body.username, body.file)

SpecSession == Init /\ [][SessionNext]_vars

(***************************************************************************)
(* The same client under every configuration of the two validity windows,  *)
(* the access window shorter than the refresh window or equal to it.       *)
(***************************************************************************)
AllEnvs == Envs \cup {[ACCESS_TOKEN_EXPIRES |-> 2, REFRESH_TOKEN_EXPIRES |-> 2]}

EnvInit ==
  /\ users = EmptyStore
  /\ nextId = 1
  /\ nextRandom = 1
  /\ now = 0
  /\ env \in AllEnvs
  /\ issued = {}
  /\ consumed = {}
  /\ invalidated = {}
  /\ revoked = {}
  /\ resp = Response("none", NoResponse, NoToken)
  /\ req = NoRequest
  /\ rotated = {}
  /\ procs = NoRequests
  /\ db = EmptyDb
  /\ board = defaultBoard
  /\ turn = defaultPlayer

EnvNext ==
  \/ AppRegister(FullBody)
  \/ \E username \in Usernames : AppLogin(username, testPassword)
  \/ \E refreshToken \in issued : AppLogout(refreshToken)
  \/ \E oldRefreshToken \in issued : AppRefreshToken(oldRefreshToken)
  \/ Tick /\ UNCHANGED others

SpecEnv == EnvInit /\ [][EnvNext]_vars

(***************************************************************************)
(* Concurrent refresh-token requests.  A request runs in three steps, each *)
(* ending at one access to the database; steps of different requests       *)
(* interleave.  The documents of this specification carry the version key  *)
(* __v of mongoose: save() of a document whose array was assigned sends    *)
(* the update under the condition that __v is still the one read, and      *)
(* increments it; save() after a push appends on the server and increments *)
(* __v without a condition.                                                *)
(***************************************************************************)

\* a save that writes the array whatever the stored version is
SetTokens_Unversioned(store, id, doc__v, before, tokens) ==
  IF tokens = before THEN [ok |-> TRUE, store |-> store]
  ELSE [ok |-> TRUE,
        store |-> [store EXCEPT ![id].tokens = tokens, ![id].__v = @ + 1]]

\* user.tokens = tokens; await user.save()  -- ok is FALSE when save throws
\* VersionError; an assignment that changes nothing is not saved at all
SetTokens(store, id, doc__v, before, tokens) ==
  IF tokens = before THEN [ok |-> TRUE, store |-> store]
  ELSE IF store[id].__v # doc__v THEN [ok |-> FALSE, store |-> store]
  ELSE [ok |-> TRUE,
        store |-> [store EXCEPT ![id].tokens = tokens, ![id].__v = @ + 1]]

\* a push whose save is lost
PushAndSave_NotSaved(store, id, refreshToken) == store

\* user.tokens.push(refreshToken); await user.save()
PushAndSave(store, id, refreshToken) ==
  [store EXCEPT ![id].tokens = PushToken(@, refreshToken), ![id].__v = @ + 1]

\* the session a registered user holds after one login at time 0
FirstSession(e) == generateTokens(1, MathRandom(0), 0, e)

ConcInit ==
  /\ env \in Envs
  /\ users = (1 :> [username |-> FullBody.username,
                    password |-> BcryptHash(FullBody.password),
                    email |-> FullBody.email,
                    avatar |-> FullBody.file,
                    tokens |-> <<FirstSession(env).refreshToken>>,
                    __v |-> 1])
  /\ nextId = 2
  /\ nextRandom = 1
  /\ now = 0
  /\ issued = {FirstSession(env).accessToken, FirstSession(env).refreshToken}
  /\ consumed = {}
  /\ invalidated = {}
  /\ revoked = {}
  /\ resp = Response("none", NoResponse, NoToken)
  /\ req = NoRequest
  /\ rotated = {}
  /\ procs = NoRequests
  /\ db = EmptyDb
  /\ board = defaultBoard
  /\ turn = defaultPlayer

ConcUnchanged ==
  UNCHANGED <<nextId, now, env, consumed, invalidated, revoked, resp, req, db, game>>

Answer(c, status) ==
  [procs EXCEPT ![c].pc = "done", ![c].status = status]

\* the route handler up to `await this.findById(userID)`
ConcFind(c, refreshToken) ==
  /\ c \notin DOMAIN procs
  /\ ConcUnchanged
  /\ UNCHANGED <<users, nextRandom, issued, rotated>>
  /\ LET p == Received(refreshToken) IN
     IF refreshToken = NoToken
     THEN procs' = procs @@ (c :> [p EXCEPT !.pc = "done", !.status = 400])
     ELSE IF JwtVerifyErr(refreshToken, TOKEN_SECRET, now)
     THEN procs' = procs @@ (c :> [p EXCEPT !.pc = "hung"])
     ELSE LET user == findById(users, refreshToken._id) IN
       IF user = null
       THEN procs' = procs @@ (c :> [p EXCEPT !.pc = "done", !.status = 403])
       ELSE procs' = procs @@ (c :> [p EXCEPT !.pc = "found", !.user = user,
                                              !.tokens = users[user].tokens,
                                              !.__v = users[user].__v])

\* the membership check on the document read and the save that follows it
ConcVerify(c) ==
  LET p == procs[c] IN
  /\ c \in DOMAIN procs
  /\ p.pc = "found"
  /\ ConcUnchanged
  /\ UNCHANGED <<nextRandom, issued, rotated>>
  /\ IF ~Includes(p.tokens, p.token)
     THEN /\ users' = SetTokens(users, p.user, p.__v, p.tokens, <<>>).store
          /\ procs' = Answer(c, 403)
     ELSE LET s == SetTokens(users, p.user, p.__v, p.tokens,
                             FilterTokens(p.tokens, p.token)) IN
          /\ users' = s.store
          /\ procs' = IF s.ok THEN [procs EXCEPT ![c].pc = "verified"]
                      ELSE Answer(c, 403)

\* generateTokens, push, save and res.status(200)
ConcRespond(c) ==
  LET p == procs[c]
      t == generateTokens(p.user, MathRandom(nextRandom), now, env) IN
  /\ c \in DOMAIN procs
  /\ p.pc = "verified"
  /\ nextRandom <= MaxMint
  /\ ConcUnchanged
  /\ nextRandom' = nextRandom + 1
  /\ users' = PushAndSave(users, p.user, t.refreshToken)
  /\ issued' = issued \cup {t.accessToken, t.refreshToken}
  /\ rotated' = rotated \cup {[old |-> p.token, accessToken |-> t.accessToken,
                               refreshToken |-> t.refreshToken, at |-> now]}
  /\ procs' = [Answer(c, 200) EXCEPT ![c].refreshToken = t.refreshToken]

\* the client has its answer, or gives up waiting for one, and is free to
\* send its next request
ConcFinish(c) ==
  /\ c \in DOMAIN procs
  /\ procs[c].pc \in {"done", "hung"}
  /\ procs' = [d \in DOMAIN procs \ {c} |-> procs[d]]
  /\ ConcUnchanged
  /\ UNCHANGED <<users, nextRandom, issued, rotated>>

ConcNext ==
  \/ \E c \in Clients, refreshToken \in Presentable \cup {NoToken} :
       ConcFind(c, refreshToken)
  \/ \E c \in Clients : ConcVerify(c)
  \/ \E c \in Clients : ConcRespond(c)
  \/ \E c \in Clients : ConcFinish(c)

SpecConc == ConcInit /\ [][ConcNext]_vars

(***************************************************************************)
(* Concurrent login, refresh-token and logout requests of one user.  Every *)
(* await of a handler ends a step: the read of the user, the save of the   *)
(* removal, the save of the push (the new pair is minted in the same       *)
(* synchronous stretch of code as the push); the response is a step of its *)
(* own.  A request carries its operation (op) besides the fields of        *)
(* Received.                                                               *)
(***************************************************************************)
Started(op, token) == Received(token) @@ [op |-> op]

\* the refresh tokens a client holds: that of the first session and those
\* of the 200 responses sent so far
HeldTokens ==
  {FirstSession(env).refreshToken} \cup {r.refreshToken : r \in rotated}

\* client c may send a request: it has none in flight, and the second
\* client sends its request while one of the first is in flight.  The first
\* client sends one request after the other; the request of the second can
\* take as long as any number of them.
MaySend(c) == c \notin DOMAIN procs /\ (c = 1 \/ 1 \in DOMAIN procs)

RaceFrame == UNCHANGED <<nextId, now, env, revoked, resp, req, db, game>>

\* POST /login up to bcrypt.compare
RaceLogin(c, username, password) ==
  /\ MaySend(c)
  /\ RaceFrame
  /\ UNCHANGED <<users, nextRandom, issued, consumed, invalidated, rotated>>
  /\ LET p == Started("login", NoToken)
         user == findOneByUsername(users, username) IN
     IF username = undefined \/ password = undefined
     THEN procs' = procs @@ (c :> [p EXCEPT !.pc = "done", !.status = 400])
     ELSE IF user = null
     THEN procs' = procs @@ (c :> [p EXCEPT !.pc = "done", !.status = 401])
     ELSE IF ~BcryptCompare(password, users[user].password)
     THEN procs' = procs @@ (c :> [p EXCEPT !.pc = "done", !.status = 401])
     ELSE procs' = procs @@ (c :> [p EXCEPT !.pc = "matched", !.user = user])

\* POST /refresh-token and POST /logout up to `await this.findById(userID)`
RaceFind(c, op, refreshToken) ==
  /\ MaySend(c)
  /\ RaceFrame
  /\ UNCHANGED <<users, nextRandom, issued, consumed, invalidated, rotated>>
  /\ LET p == Started(op, refreshToken) IN
     IF refreshToken = NoToken
     THEN procs' = procs @@ (c :> [p EXCEPT !.pc = "done", !.status = 400])
     ELSE IF JwtVerifyErr(refreshToken, TOKEN_SECRET, now)
     THEN procs' = procs @@ (c :> [p EXCEPT !.pc = "hung"])
     ELSE LET user == findById(users, refreshToken._id) IN
       IF user = null
       THEN procs' = procs @@ (c :> [p EXCEPT !.pc = "done", !.status = 403])
       ELSE procs' = procs @@ (c :> [p EXCEPT !.pc = "found", !.user = user,
                                              !.tokens = users[user].tokens,
                                              !.__v = users[user].__v])

\* the membership check on the document read and the save that follows it;
\* invalidated records the tokens that the save of a reuse detection struck,
\* consumed the presented token once the save of its removal succeeded
RaceVerify(c) ==
  LET p == procs[c] IN
  /\ c \in DOMAIN procs
  /\ p.pc = "found"
  /\ RaceFrame
  /\ UNCHANGED <<nextRandom, issued, rotated>>
  /\ IF ~Includes(p.tokens, p.token)
     THEN LET s == SetTokens(users, p.user, p.__v, p.tokens, <<>>) IN
          /\ users' = s.store
          /\ invalidated' = invalidated \cup
                              (LiveSet(users, p.user) \ LiveSet(s.store, p.user))
          /\ procs' = Answer(c, 403)
          /\ UNCHANGED consumed
     ELSE LET s == SetTokens(users, p.user, p.__v, p.tokens,
                             FilterTokens(p.tokens, p.token)) IN
          /\ users' = s.store
          /\ consumed' = IF s.ok THEN consumed \cup {p.token} ELSE consumed
          /\ UNCHANGED invalidated
          /\ procs' = IF s.ok THEN [procs EXCEPT ![c].pc = "verified"]
                      ELSE Answer(c, 403)

\* generateTokens(user._id); user.tokens.push(refreshToken); await user.save()
RacePush(c) ==
  LET p == procs[c]
      t == generateTokens(p.user, MathRandom(nextRandom), now, env) IN
  /\ c \in DOMAIN procs
  /\ p.pc = "matched" \/ (p.pc = "verified" /\ p.op = "refresh")
  /\ nextRandom <= MaxMint
  /\ RaceFrame
  /\ nextRandom' = nextRandom + 1
  /\ issued' = issued \cup {t.accessToken, t.refreshToken}
  /\ users' = PushAndSave(users, p.user, t.refreshToken)
  /\ procs' = [procs EXCEPT ![c].pc = "saved", ![c].refreshToken = t.refreshToken]
  /\ UNCHANGED <<consumed, invalidated, rotated>>

\* res.status(200).send(...): after the push of a login or a refresh, and
\* after the removal of a logout
RaceSend(c) ==
  LET p == procs[c] IN
  /\ c \in DOMAIN procs
  /\ RaceFrame
  /\ UNCHANGED <<users, nextRandom, issued, consumed, invalidated>>
  /\ \/ /\ p.pc = "saved"
        /\ rotated' = rotated \cup {[old |-> p.token,
                                     accessToken |-> Sign(p.refreshToken._id,
                                                          p.refreshToken.random,
                                                          p.refreshToken.iat,
                                                          env.ACCESS_TOKEN_EXPIRES),
                                     refreshToken |-> p.refreshToken, at |-> now]}
        /\ procs' = Answer(c, 200)
     \/ /\ p.pc = "verified" /\ p.op = "logout"
        /\ UNCHANGED rotated
        /\ procs' = Answer(c, 200)

RaceNext ==
  \/ \E c \in Clients : RaceLogin(c, FullBody.username, FullBody.password)
  \/ \E c \in Clients, op \in {"refresh", "logout"}, refreshToken \in HeldTokens :
       RaceFind(c, op, refreshToken)
  \/ \E c \in Clients : RaceVerify(c)
  \/ \E c \in Clients : RacePush(c)
  \/ \E c \in Clients : RaceSend(c)
  \/ ConcFinish(1)

SpecRace == ConcInit /\ [][RaceNext]_vars

(***************************************************************************)
(* A registered user who logged in once at time 0 (the session of          *)
(* FirstSession), and goes on to log in, rotate and log out, with right    *)
(* and wrong passwords and with every token a response carried, the access *)
(* tokens included.                                                        *)
(***************************************************************************)
RecoverInit ==
  /\ env \in Envs
  /\ users = (1 :> [username |-> FullBody.username,
                    password |-> BcryptHash(FullBody.password),
                    email |-> FullBody.email,
                    avatar |-> FullBody.file,
                    tokens |-> <<FirstSession(env).refreshToken>>])
  /\ nextId = 2
  /\ nextRandom = 1
  /\ now = 0
  /\ issued = {FirstSession(env).accessToken, FirstSession(env).refreshToken}
  /\ consumed = {}
  /\ invalidated = {}
  /\ revoked = {}
  /\ resp = Response("none", NoResponse, NoToken)
  /\ req = NoRequest
  /\ rotated = {}
  /\ procs = NoRequests
  /\ db = EmptyDb
  /\ board = defaultBoard
  /\ turn = defaultPlayer

RecoverNext ==
  \/ \E username \in Usernames, password \in Passwords : AppLogin(username, password)
  \/ \E refreshToken \in issued : AppLogout(refreshToken)
  \/ \E oldRefreshToken \in issued : AppRefreshToken(oldRefreshToken)
  \/ Tick /\ UNCHANGED others

SpecRecover == RecoverInit /\ [][RecoverNext]_vars

(***************************************************************************)
(* The resource routes: posts, comments and likes, all behind authenticate.*)
(* A post is {title, media, userID}, a comment {content, userID, postID},  *)
(* a like a document whose _id is the pair {userID, postID}.  ObjectIds    *)
(* are numbered in the order of creation and never used again.             *)
(***************************************************************************)
\* an ObjectId that no post was ever given
StrangerPost == MaxDocs + 1

\* the postID of a request body that has none (undefined)
NoPostID == 0

\* a lookup that never finds a document
LikeFindById_Null(likes, _id) == FALSE

\* BaseController.findById on the likes collection: TRUE when the result is
\* a document, FALSE when it is null
LikeFindById(likes, _id) == \E like \in BagToSet(likes) : like._id = _id

\* BaseController.create on the likes collection: the _id index is unique,
\* insertion of a second document with the same _id throws
LikeCreate(likes, _id) ==
  IF \E like \in BagToSet(likes) : like._id = _id
  THEN [ok |-> FALSE, likes |-> likes]
  ELSE [ok |-> TRUE, likes |-> likes (+) SetToBag({[_id |-> _id]})]

\* BaseController.delete on the likes collection (findByIdAndDelete)
LikeDelete(likes, _id) ==
  [like \in {l \in BagToSet(likes) : l._id # _id} |-> likes[like]]

\* CommentsController.deleteByPostID
CommentsDeleteByPostID(comments, postID) ==
  [id \in {c \in DOMAIN comments : comments[c].postID # postID} |-> comments[id]]

\* LikesController.deleteByPostID
LikesDeleteByPostID(likes, postID) ==
  [like \in {l \in BagToSet(likes) : l._id.postID # postID} |-> likes[like]]

\* a delete that removes the post alone
PostsDelete_PostOnly(d, id) ==
  [d EXCEPT !.posts = [p \in DOMAIN d.posts \ {id} |-> d.posts[p]]]

\* PostsController.delete
PostsDelete(d, id) ==
  [d EXCEPT !.comments = CommentsDeleteByPostID(@, id),
            !.likes = LikesDeleteByPostID(@, id),
            !.posts = [p \in DOMAIN d.posts \ {id} |-> d.posts[p]]]

\* the session of user id, from a login at time 0
SessionOf(id, e) == generateTokens(id, MathRandom(1 - id), 0, e)

PostsInit ==
  /\ env \in Envs
  /\ users = [id \in Clients |->
               [username |-> IF id = 1 THEN FullBody.username ELSE "OtherTestUser",
                password |-> BcryptHash(FullBody.password),
                email |-> FullBody.email,
                avatar |-> FullBody.file,
                tokens |-> <<SessionOf(id, env).refreshToken>>]]
  /\ nextId = Cardinality(Clients) + 1
  /\ nextRandom = 1
  /\ now = 0
  /\ issued = UNION {{SessionOf(id, env).accessToken,
                      SessionOf(id, env).refreshToken} : id \in Clients}
  /\ consumed = {}
  /\ invalidated = {}
  /\ revoked = {}
  /\ resp = Response("none", NoResponse, NoToken)
  /\ req = NoRequest
  /\ rotated = {}
  /\ procs = NoRequests
  /\ db = EmptyDb
  /\ board = defaultBoard
  /\ turn = defaultPlayer

\* what a resource route records of its request: the header, the outcome of
\* authenticate and the user it patched to req
ResRequest(op, authorization) ==
  LET a == authenticate(authorization, now) IN
  [Request(op, undefined, undefined, undefined, undefined, authorization)
     EXCEPT !.at = now, !.handled = (a.status = Pass), !.user = a.user]

\* and of its response: the status, the collections the request found (db),
\* the post id of the path and the `liked` of the body
ResResponse(op, status, authorization, postID, liked) ==
  Response(op, status, SplitToken(authorization))
    @@ [db |-> db, postID |-> postID, liked |-> liked]

ResUnchanged ==
  UNCHANGED <<users, nextId, nextRandom, now, env, issued, consumed,
              invalidated, revoked, rotated, procs, game>>

\* POST /posts
CreatePost(authorization, title, file) ==
  LET a == authenticate(authorization, now) IN
  /\ ResUnchanged
  /\ req' = [ResRequest("createPost", authorization) EXCEPT !.file = file]
  /\ IF a.status # Pass
     THEN /\ resp' = ResResponse("createPost", a.status, authorization, null, FALSE)
          /\ UNCHANGED db
     ELSE IF title = undefined
     THEN /\ resp' = ResResponse("createPost", 400, authorization, null, FALSE)
          /\ UNCHANGED db
     ELSE IF file # undefined /\ file # "image/png" /\ file # "image/jpeg"
     THEN /\ resp' = ResResponse("createPost", 400, authorization, null, FALSE)
          /\ UNCHANGED db
     ELSE /\ db.nextPost <= MaxDocs
          /\ db' = [db EXCEPT
                      !.posts = @ @@ (db.nextPost :>
                                  [title |-> title, media |-> file, userID |-> a.user]),
                      !.nextPost = @ + 1]
          /\ resp' = ResResponse("createPost", 201, authorization, db.nextPost, FALSE)

\* DELETE /posts/{id}
DeletePost(authorization, id) ==
  LET a == authenticate(authorization, now) IN
  /\ ResUnchanged
  /\ req' = ResRequest("deletePost", authorization)
  /\ IF a.status # Pass
     THEN /\ resp' = ResResponse("deletePost", a.status, authorization, id, FALSE)
          /\ UNCHANGED db
     ELSE IF findById(db.posts, id) # null
     THEN /\ db' = PostsDelete(db, id)
          /\ resp' = ResResponse("deletePost", 200, authorization, id, FALSE)
     ELSE /\ resp' = ResResponse("deletePost", 404, authorization, id, FALSE)
          /\ UNCHANGED db

\* POST /comments
CreateComment(authorization, content, postID) ==
  LET a == authenticate(authorization, now) IN
  /\ ResUnchanged
  /\ req' = ResRequest("createComment", authorization)
  /\ IF a.status # Pass
     THEN /\ resp' = ResResponse("createComment", a.status, authorization, postID, FALSE)
          /\ UNCHANGED db
     ELSE IF content = undefined \/ postID = NoPostID
     THEN /\ resp' = ResResponse("createComment", 400, authorization, postID, FALSE)
          /\ UNCHANGED db
     ELSE /\ db.nextComment <= MaxDocs
          /\ db' = [db EXCEPT
                      !.comments = @ @@ (db.nextComment :>
                                     [content |-> content, postID |-> postID,
                                      userID |-> a.user]),
                      !.nextComment = @ + 1]
          /\ resp' = ResResponse("createComment", 201, authorization, postID, FALSE)

\* GET /likes/{postID}
GetLike(authorization, postID) ==
  LET a == authenticate(authorization, now) IN
  /\ ResUnchanged
  /\ UNCHANGED db
  /\ req' = ResRequest("getLike", authorization)
  /\ IF a.status # Pass
     THEN resp' = ResResponse("getLike", a.status, authorization, postID, FALSE)
     ELSE LET like == LikeFindById(db.likes, [userID |-> a.user, postID |-> postID]) IN
          resp' = ResResponse("getLike", 200, authorization, postID, like)

\* POST /likes/{postID}; no response is sent when create throws
LikePost(authorization, postID) ==
  LET a == authenticate(authorization, now) IN
  /\ ResUnchanged
  /\ req' = ResRequest("likePost", authorization)
  /\ IF a.status # Pass
     THEN /\ resp' = ResResponse("likePost", a.status, authorization, postID, FALSE)
          /\ UNCHANGED db
     ELSE LET _id == [userID |-> a.user, postID |-> postID] IN
       IF LikeFindById(db.likes, _id)
       THEN /\ resp' = ResResponse("likePost", 409, authorization, postID, FALSE)
            /\ UNCHANGED db
       ELSE LET c == LikeCreate(db.likes, _id) IN
            /\ db' = [db EXCEPT !.likes = c.likes]
            /\ resp' = ResResponse("likePost", IF c.ok THEN 201 ELSE NoResponse,
                                   authorization, postID, FALSE)

\* DELETE /likes/{postID}
DeleteLike(authorization, postID) ==
  LET a == authenticate(authorization, now) IN
  /\ ResUnchanged
  /\ req' = ResRequest("deleteLike", authorization)
  /\ IF a.status # Pass
     THEN /\ resp' = ResResponse("deleteLike", a.status, authorization, postID, FALSE)
          /\ UNCHANGED db
     ELSE LET _id == [userID |-> a.user, postID |-> postID] IN
       IF LikeFindById(db.likes, _id)
       THEN /\ db' = [db EXCEPT !.likes = LikeDelete(@, _id)]
            /\ resp' = ResResponse("deleteLike", 200, authorization, postID, FALSE)
       ELSE /\ resp' = ResResponse("deleteLike", 404, authorization, postID, FALSE)
            /\ UNCHANGED db

\* the headers of the two clients: each sends its access token
ResHeaders == {Header("JWT", <<SessionOf(id, env).accessToken>>) : id \in Clients}

\* the header of the client who writes the posts and the comments
AuthorHeader == Header("JWT", <<SessionOf(1, env).accessToken>>)

\* the post ids a client has seen: those of the posts created so far, and
\* with them one that was never given
CreatedPosts == 1..(db.nextPost - 1)
KnownPosts == CreatedPosts \cup {StrangerPost}

\* one client posts, comments and deletes, and likes a post that does not
\* exist; both clients like and unlike the posts that were created; deleting
\* and liking are also tried without a token
PostsNext ==
  \/ \E title \in {"TestPost", undefined} :
       CreatePost(AuthorHeader, title, "image/png")
  \/ \E authorization \in {AuthorHeader, NoHeader}, id \in KnownPosts :
       DeletePost(authorization, id)
  \/ \E postID \in KnownPosts \cup {NoPostID} :
       CreateComment(AuthorHeader, "Test content", postID)
  \/ \E authorization \in ResHeaders, postID \in CreatedPosts :
       GetLike(authorization, postID)
  \/ \E authorization \in ResHeaders \cup {NoHeader}, postID \in KnownPosts :
       /\ postID = StrangerPost => authorization = AuthorHeader
       /\ LikePost(authorization, postID)
  \/ \E authorization \in ResHeaders, postID \in CreatedPosts :
       DeleteLike(authorization, postID)

SpecPosts == PostsInit /\ [][PostsNext]_vars

(***************************************************************************)
(* One client that calls every route: it registers, logs in with the right *)
(* and a wrong password, rotates and logs out with every refresh token it  *)
(* was given, changes its avatar, and posts, comments, likes and deletes,  *)
(* each time with the access token it was given last in the Authorization  *)
(* header and on the post created last, until it is deleted.               *)
(***************************************************************************)
RefreshTokens == {token \in issued : token.exp - token.iat = env.REFRESH_TOKEN_EXPIRES}
AccessTokens == {token \in issued : token.exp - token.iat = env.ACCESS_TOKEN_EXPIRES}
FrameHeaders ==
  {Header("JWT", <<token>>) :
     token \in {t \in AccessTokens : \A o \in AccessTokens : o.random <= t.random}}
LastPost == {id \in DOMAIN db.posts : id = db.nextPost - 1}

FrameNext ==
  \/ AppRegister(FullBody)
  \/ \E username \in Usernames, password \in Passwords : AppLogin(username, password)
  \/ \E refreshToken \in RefreshTokens : AppLogout(refreshToken)
  \/ \E oldRefreshToken \in RefreshTokens : AppRefreshToken(oldRefreshToken)
  \/ \E authorization \in FrameHeaders : PutUser(authorization, undefined, "image/jpeg")
  \/ \E authorization \in FrameHeaders : CreatePost(authorization, "TestPost", "image/png")
  \/ \E authorization \in FrameHeaders, id \in LastPost :
       DeletePost(authorization, id)
  \/ \E authorization \in FrameHeaders, postID \in LastPost :
       CreateComment(authorization, "Test content", postID)
  \/ \E authorization \in FrameHeaders, postID \in LastPost :
       GetLike(authorization, postID)
  \/ \E authorization \in FrameHeaders, postID \in LastPost :
       LikePost(authorization, postID)
  \/ \E authorization \in FrameHeaders, postID \in LastPost :
       DeleteLike(authorization, postID)

SpecFrame == Init /\ [][FrameNext]_vars

(***************************************************************************)
(* Two registered users, each with the session of one login, who log in    *)
(* again, rotate and log out, each with every refresh token either holds.  *)
(***************************************************************************)
TwoUsersNext ==
  \/ \E username \in AppUsernames, password \in Passwords :
       AppLogin(username, password)
  \/ \E refreshToken \in RefreshTokens : AppLogout(refreshToken)
  \/ \E oldRefreshToken \in RefreshTokens : AppRefreshToken(oldRefreshToken)

SpecTwoUsers == PostsInit /\ [][TwoUsersNext]_vars

(***************************************************************************)
(* The App component.  A click on a cell calls setBoard with an updater    *)
(* that writes the turn of the current render into the cell and, inside    *)
(* the updater, calls setTurn with an updater that flips the turn.  React  *)
(* calls an updater once, or twice (Strict Mode in a development build),   *)
(* and takes the board of the last call; every call queues one more flip   *)
(* of the turn.  The cells are rendered with a click handler only while    *)
(* they are null, and the dialog with the restart button is open, over the *)
(* board, exactly when the board is full or has a winner.                  *)
(***************************************************************************)
winCons ==
  <<<<0, 1, 2>>, <<3, 4, 5>>, <<6, 7, 8>>, <<0, 3, 6>>, <<1, 4, 7>>,
    <<2, 5, 8>>, <<0, 4, 8>>, <<2, 4, 6>>>>

\* the condition of the loop body of checkWinner for line i
Wins(b, i) ==
  LET a == winCons[i][1]
      m == winCons[i][2]
      c == winCons[i][3]
  IN b[a] # nullCell /\ b[a] = b[m] /\ b[a] = b[c]

\* the mark of the first complete line, null when there is none
checkWinner(b) ==
  IF \E i \in 1..Len(winCons) : Wins(b, i)
  THEN LET i == CHOOSE i \in 1..Len(winCons) :
                  Wins(b, i) /\ \A j \in 1..(i - 1) : ~Wins(b, j)
       IN b[winCons[i][1]]
  ELSE nullCell

boardFilled(b) == \A idx \in DOMAIN b : b[idx] = "O" \/ b[idx] = "X"

\* <Dialog open={boardFilled || winner !== null}>
DialogOpen == boardFilled(board) \/ checkWinner(board) # nullCell

\* the updater passed to setTurn
FlipTurn(oldTurn) == IF oldTurn = "O" THEN "X" ELSE "O"

\* how many times React calls the updater passed to setBoard
UpdaterCalls == {1, 2}

GameUnchanged ==
  UNCHANGED <<users, nextId, nextRandom, now, env, issued, consumed,
              invalidated, revoked, resp, req, rotated, procs, db>>

\* handleCellClick(idx)(), the updater called `calls` times
handleCellClick(idx, calls) ==
  /\ ~DialogOpen
  /\ board[idx] = nullCell
  /\ board' = [board EXCEPT ![idx] = turn]
  /\ turn' = IF calls = 1 THEN FlipTurn(turn) ELSE FlipTurn(FlipTurn(turn))
  /\ GameUnchanged

handleRestartClick ==
  /\ DialogOpen
  /\ board' = defaultBoard
  /\ turn' = defaultPlayer
  /\ GameUnchanged

GameNext ==
  \/ \E idx \in DOMAIN board, calls \in UpdaterCalls : handleCellClick(idx, calls)
  \/ handleRestartClick

SpecGame == Init /\ [][GameNext]_vars

(***************************************************************************)
(* Properties of the refresh-token protocol.  They speak of the last       *)
(* request (resp), the store that request found (resp.before) and the      *)
(* store now (users): no other request has run in between.                 *)
(***************************************************************************)
IsRequest(op) == resp.op = op /\ resp.token # NoToken

\* the user the presented token names was in the store
NamedUserFound == resp.token._id \in DOMAIN resp.before

\* the presented token was in the live set of the user it names
WasLive == NamedUserFound /\ resp.token \in LiveSet(resp.before, resp.token._id)

\* every user other than id is as the request found it
OthersUntouched(id) ==
  /\ DOMAIN users = DOMAIN resp.before
  /\ \A o \in DOMAIN users \ {id} : users[o] = resp.before[o]

\* C1: single use.  A token removed from the live set by a successful
\* refresh-token or logout request is never in a live set again, and no
\* later refresh-token request that presents it returns 200.
C1_SingleUse ==
  /\ \A t \in consumed : ~LiveAnywhere(t)
  /\ (IsRequest("refresh") /\ resp.wasConsumed) => resp.status # 200

C1_Witness ==
  /\ IsRequest("refresh") /\ resp.wasConsumed /\ resp.verified
  /\ resp.status = 403

\* C2: reuse detection.  A refresh-token request whose token verifies but is
\* absent from the live set of the user it names fails and leaves that user's
\* live set empty; every token struck from a live set that way is refused by
\* a later refresh-token request (403 while it still verifies, never 200).
C2_ReuseDetection ==
  /\ (IsRequest("refresh") /\ resp.verified /\ NamedUserFound /\ ~WasLive)
       => /\ resp.status = 403
          /\ users[resp.token._id].tokens = <<>>
  /\ (IsRequest("refresh") /\ resp.token \in invalidated)
       => /\ resp.status # 200
          /\ resp.verified => resp.status = 403

C2_Witness ==
  /\ IsRequest("refresh") /\ resp.token \in invalidated
  /\ resp.verified /\ resp.status = 403
  /\ \E t \in consumed : t._id = resp.token._id

\* C3: revocation is terminal until the next login.  From a reuse detection
\* until the user's next successful login the user's live set is empty and
\* every refresh-token request with a token of that user fails (403 while the
\* token verifies, never 200).
C3_RevokedUntilLogin ==
  /\ \A id \in revoked : id \in DOMAIN users /\ users[id].tokens = <<>>
  /\ (IsRequest("refresh") /\ resp.wasRevoked)
       => /\ resp.status # 200
          /\ resp.verified => resp.status = 403
          /\ NamedUserFound => users[resp.token._id].tokens = <<>>

C3_Witness ==
  /\ IsRequest("refresh") /\ resp.wasRevoked /\ resp.token \in issued
  /\ resp.verified /\ resp.status = 403
  /\ resp.token._id \in revoked

\* C4 as stated: a refresh-token request presenting a token of the live set
\* returns 200 and replaces the presented token by the new one.
C4_AsStated ==
  (IsRequest("refresh") /\ WasLive)
    => /\ resp.status = 200
       /\ LiveSet(users, resp.token._id) =
            (LiveSet(resp.before, resp.token._id) \ {resp.token}) \cup {resp.refreshToken}

\* C4, amended: a refresh-token request presenting a token that verifies
\* (unexpired) and is in the live set of its user returns 200; afterwards the
\* live set is the previous one without the presented token and with the one
\* new refresh token of the response, its size is unchanged, and no other
\* user is touched.
C4_Rotation ==
  (IsRequest("refresh") /\ resp.verified /\ WasLive)
    => LET id == resp.token._id IN
       /\ resp.status = 200
       /\ resp._id = id
       /\ resp.refreshToken \notin LiveSet(resp.before, id)
       /\ LiveSet(users, id) =
            (LiveSet(resp.before, id) \ {resp.token}) \cup {resp.refreshToken}
       /\ Len(users[id].tokens) = Len(resp.before[id].tokens)
       /\ OthersUntouched(id)

C4_Witness ==
  /\ IsRequest("refresh") /\ resp.verified /\ WasLive
  /\ resp.status = 200
  /\ resp.refreshToken \in LiveSet(users, resp.token._id)
  /\ resp.token \notin LiveSet(users, resp.token._id)

\* C5: a login that returns 200 stores the refresh token of the response in
\* the user's live set and keeps every token that was live: the set grows by
\* exactly that one token.
C5_LoginAddsOne ==
  (resp.op = "login" /\ resp.status = 200)
    => LET id == resp._id IN
       /\ id \in DOMAIN resp.before
       /\ resp.refreshToken \in LiveSet(users, id)
       /\ resp.refreshToken \notin LiveSet(resp.before, id)
       /\ LiveSet(users, id) = LiveSet(resp.before, id) \cup {resp.refreshToken}
       /\ Len(users[id].tokens) = Len(resp.before[id].tokens) + 1
       /\ OthersUntouched(id)

C5_Witness ==
  /\ resp.op = "login" /\ resp.status = 200
  /\ resp.before[resp._id].tokens # <<>>
  /\ Len(users[resp._id].tokens) = 2

\* C6 as stated: a logout request presenting a token of the live set returns
\* 200 and removes exactly that token.
C6_AsStated ==
  (IsRequest("logout") /\ WasLive)
    => /\ resp.status = 200
       /\ LiveSet(users, resp.token._id) =
            LiveSet(resp.before, resp.token._id) \ {resp.token}

\* C6, amended: a logout request presenting a token that verifies (unexpired)
\* and is in the live set of its user returns 200 and removes exactly that
\* token: every other member of the set, and every other user, is as before.
C6_LogoutRemovesOne ==
  (IsRequest("logout") /\ resp.verified /\ WasLive)
    => LET id == resp.token._id IN
       /\ resp.status = 200
       /\ LiveSet(users, id) = LiveSet(resp.before, id) \ {resp.token}
       /\ Len(users[id].tokens) = Len(resp.before[id].tokens) - 1
       /\ OthersUntouched(id)

C6_Witness ==
  /\ IsRequest("logout") /\ resp.verified /\ WasLive
  /\ resp.status = 200
  /\ users[resp.token._id].tokens # <<>>

C8_BadTokenRejected ==
  (IsRequest("refresh") /\ ~resp.verified)
    => resp.status = 403 /\ users = resp.before

\* C9: a logout request is answered with 403 whenever its token does not
\* verify, names a user that does not exist, or is not in the user's live set.
C9_LogoutForbidden ==
  (IsRequest("logout") /\ (~resp.verified \/ ~NamedUserFound \/ ~WasLive))
    => resp.status = 403

\* C10: a refresh-token request whose token verifies but names a user that is
\* not in the store is answered with 403 and changes no stored user.
C10_UnknownUser ==
  (IsRequest("refresh") /\ resp.verified /\ ~NamedUserFound)
    => resp.status = 403 /\ users = resp.before

C10_Witness ==
  /\ IsRequest("refresh") /\ resp.verified /\ ~NamedUserFound
  /\ resp.token \in issued
  /\ resp.status = 403

(***************************************************************************)
(* Properties of the authenticate middleware, over SpecAuth (C12: over     *)
(* SpecSession).  They speak of the last request when it was a PUT /users  *)
(* (req.op = "putUser"): the token the middleware took from the header,    *)
(* the clock when it ran (req.at) and whether the route handler was run    *)
(* (req.handled).                                                          *)
(***************************************************************************)
IsAuthRequest == req.op = "putUser"

\* the token the middleware extracted from the header (NoToken: undefined)
HeaderToken == SplitToken(req.authorization)

\* the header token carries a signature of the shared secret and its expiry
\* is after the clock of the request
SignedAndFresh ==
  /\ HeaderToken.sig = TOKEN_SECRET
  /\ req.at < HeaderToken.exp

\* C11: the three outcomes of authenticate.  Without a token in the
\* Authorization header the response is 401; with a token that fails
\* verification it is 403; in both cases the route handler is not run and the
\* store is as before.  Only with a verifying token is the handler run, and
\* it sees the _id of the token's payload as req.user.
C11_ThreeOutcomes ==
  IsAuthRequest =>
    /\ HeaderToken = NoToken
         => resp.status = 401 /\ ~req.handled /\ users = resp.before
    /\ (HeaderToken # NoToken /\ ~SignedAndFresh)
         => resp.status = 403 /\ ~req.handled /\ users = resp.before
    /\ (HeaderToken # NoToken /\ SignedAndFresh)
         => /\ req.handled
            /\ req.user = HeaderToken._id
            /\ resp.status \in {200, 400, 409}
    /\ req.handled \/ resp.status \in {401, 403}

C11_Witness ==
  /\ IsAuthRequest /\ HeaderToken \in issued /\ ~SignedAndFresh
  /\ resp.status = 403 /\ ~req.handled
  /\ users # EmptyStore
  /\ \E earlier \in DOMAIN users : users[earlier].avatar = "image/jpeg"

\* C12: authenticate is stateless.  A token that is correctly signed and
\* unexpired is accepted whether or not it, or any token of its user, is in a
\* live set: also after its session was logged out and after the user's set
\* was revoked, and even when the user is not in the store.  The middleware
\* itself leaves the store as it found it: when it refuses, nothing changed.
C12_Stateless ==
  IsAuthRequest =>
    /\ SignedAndFresh => req.handled /\ req.user = HeaderToken._id
    /\ (SignedAndFresh /\ (resp.wasRevoked \/ resp.wasConsumed
                             \/ ~NamedUserFound \/ ~WasLive))
         => req.handled /\ resp.status \notin {401, 403}
    /\ ~req.handled => users = resp.before

\* an access token is accepted although the refresh token minted with it
\* was consumed (by logout or rotation) and its user's live set was revoked
C12_Witness ==
  /\ IsAuthRequest /\ SignedAndFresh /\ req.handled
  /\ resp.status = 200
  /\ resp.wasRevoked /\ NamedUserFound
  /\ resp.before[HeaderToken._id].tokens = <<>>
  /\ \E t \in consumed : t.random = HeaderToken.random /\ t # HeaderToken
  /\ rotated = {}

\* C13: the expiry boundary.  A token signed with the shared secret whose
\* exp is T passes authenticate at every clock before T and is refused with
\* 403 at T and at every later clock; a token signed with another secret is
\* refused with 403 at every clock, expired or not.
C13_ExpiryBoundary ==
  (IsAuthRequest /\ HeaderToken # NoToken) =>
    /\ HeaderToken.sig = TOKEN_SECRET
         => /\ req.at < HeaderToken.exp => req.handled
            /\ req.at >= HeaderToken.exp => ~req.handled /\ resp.status = 403
    /\ HeaderToken.sig # TOKEN_SECRET => ~req.handled /\ resp.status = 403

\* a token of the server is refused in the very second of its expiry
C13_Witness ==
  /\ IsAuthRequest /\ HeaderToken \in issued
  /\ req.at = HeaderToken.exp
  /\ resp.status = 403 /\ ~req.handled

\* the access token that was minted together with a refresh token
AccessOf(refreshToken) ==
  Sign(refreshToken._id, refreshToken.random, refreshToken.iat,
       env.ACCESS_TOKEN_EXPIRES)

\* C14: the access token times out, the session does not.  Once the window
\* of an access token has elapsed, a PUT /users presenting it is refused with
\* 403; a refresh-token request with the refresh token of the same login,
\* still unexpired and live, returns 200 with an access token whose window
\* starts then; and a PUT /users presenting that new access token within its
\* window passes authenticate and is handled.
C14_TimeoutThenRefresh ==
  /\ (IsAuthRequest /\ HeaderToken \in issued /\ req.at >= HeaderToken.exp)
       => resp.status = 403 /\ ~req.handled
  /\ (IsRequest("refresh") /\ resp.verified /\ WasLive)
       => /\ resp.status = 200
          /\ resp.accessToken \in issued
  /\ \A rot \in rotated :
       /\ rot.accessToken.sig = TOKEN_SECRET
       /\ rot.accessToken.iat = rot.at
       /\ rot.accessToken.exp > rot.at
  /\ (IsAuthRequest /\ req.at < HeaderToken.exp
        /\ \E rot \in rotated : rot.accessToken = HeaderToken)
       => req.handled /\ resp.status \in {200, 400, 409}

\* the handler of PUT /users answers 200 to an access token that came from a
\* rotation made when the access token of the login had expired and its
\* refresh token had not
C14_Witness ==
  /\ IsAuthRequest /\ req.handled /\ resp.status = 200
  /\ \E rot \in rotated :
       /\ rot.accessToken = HeaderToken
       /\ rot.at >= AccessOf(rot.old).exp
       /\ rot.at < rot.old.exp
       /\ AccessOf(rot.old) \in issued

(***************************************************************************)
(* Distinctness of the tokens of generateTokens, over SpecEnv.  nextRandom *)
(* - 1 calls of generateTokens have been made; issued holds every token    *)
(* they returned.                                                          *)
(***************************************************************************)
NoDuplicates(tokens) ==
  \A i, j \in 1..Len(tokens) : tokens[i] = tokens[j] => i = j

\* C15 as stated: any two tokens minted are distinct strings, the two of one
\* call included, so the calls made so far returned twice as many different
\* tokens; and no live set holds a token twice.
C15_AsStated ==
  /\ Cardinality(issued) = 2 * (nextRandom - 1)
  /\ (resp.status = 200 /\ resp.op \in {"login", "refresh"})
       => resp.accessToken # resp.refreshToken
  /\ \A id \in DOMAIN users : NoDuplicates(users[id].tokens)

\* C15, amended: tokens minted by different calls of generateTokens are
\* distinct strings, also for the same user in the same second, because each
\* call signs its own nonce; the access and the refresh token of one call
\* are distinct exactly when the two validity windows differ, and are the
\* same string when the windows are equal; no live set holds a token twice.
C15_Distinct ==
  /\ Cardinality({t.random : t \in issued}) = nextRandom - 1
  /\ \A t1, t2 \in issued : t1.random = t2.random => t1._id = t2._id /\ t1.iat = t2.iat
  /\ env.ACCESS_TOKEN_EXPIRES # env.REFRESH_TOKEN_EXPIRES
       => Cardinality(issued) = 2 * (nextRandom - 1)
  /\ (resp.status = 200 /\ resp.op \in {"login", "refresh"})
       => /\ resp.accessToken.random = resp.refreshToken.random
          /\ (resp.accessToken = resp.refreshToken)
               <=> (env.ACCESS_TOKEN_EXPIRES = env.REFRESH_TOKEN_EXPIRES)
  /\ \A id \in DOMAIN users : NoDuplicates(users[id].tokens)

\* two logins of one user in the same second, with equal windows: the two
\* refresh tokens differ in nothing but the nonce and are both live
C15_Witness ==
  /\ env.ACCESS_TOKEN_EXPIRES = env.REFRESH_TOKEN_EXPIRES
  /\ resp.op = "login" /\ resp.status = 200
  /\ resp.accessToken = resp.refreshToken
  /\ \E t \in LiveSet(users, resp._id) :
       /\ t # resp.refreshToken
       /\ t._id = resp.refreshToken._id
       /\ t.iat = resp.refreshToken.iat
       /\ t.exp = resp.refreshToken.exp

(***************************************************************************)
(* Properties of concurrent refresh-token requests, over SpecConc.         *)
(***************************************************************************)
\* the request of client c passed the membership check and saved the removal
Won(c) ==
  /\ c \in DOMAIN procs
  /\ \/ procs[c].pc = "verified"
     \/ procs[c].pc = "done" /\ procs[c].status = 200

\* the document client c read had the presented token in its live set
SawLive(c) ==
  /\ c \in DOMAIN procs
  /\ procs[c].pc \in {"found", "verified", "done"}
  /\ procs[c].user # null
  /\ Includes(procs[c].tokens, procs[c].token)

\* both clients presented the same token, each read the user before the
\* other had saved the removal, and both have their answer
RacedAndFinished ==
  /\ SawLive(1) /\ SawLive(2)
  /\ procs[1].token = procs[2].token
  /\ procs[1].pc = "done" /\ procs[2].pc = "done"

\* C16: under every interleaving of refresh-token requests that present the
\* same token, at most one of them gets past the removal of the token and
\* returns 200 with a new pair: no token is ever rotated twice.
C16_AtMostOne200 ==
  /\ \A r1, r2 \in rotated : r1.old = r2.old => r1 = r2
  /\ \A c1, c2 \in Clients :
       (c1 # c2 /\ Won(c1) /\ Won(c2)) => procs[c1].token # procs[c2].token

\* two requests with the same token both read it as live; one is answered
\* 200, the other 403
C16_Witness ==
  /\ SawLive(1) /\ SawLive(2)
  /\ procs[1].token = procs[2].token
  /\ procs[1].pc = "done" /\ procs[1].status = 403
  /\ procs[2].pc = "done" /\ procs[2].status = 200

\* C17 as stated: when two requests with the same live token both read the
\* user before either persisted the removal, both pass the membership check,
\* both mint a new pair and both write.
C17_AsStated ==
  RacedAndFinished
    => \A c \in Clients :
         /\ procs[c].status = 200
         /\ procs[c].refreshToken # NoToken

\* C17, amended: there is such an interleaving, and both requests pass the
\* membership check, but only the one whose removal is saved first mints and
\* writes a new pair; the save of the other fails on the changed version of
\* the document, it is answered 403 and mints nothing.  When both have
\* finished, exactly one newly minted refresh token is in the stored live
\* set: never none, never two.
C17_RaceResolved ==
  RacedAndFinished
    => LET id == procs[1].user
           minted == {procs[c].refreshToken : c \in Clients} \ {NoToken} IN
       /\ \E w \in Clients :
            /\ procs[w].status = 200 /\ procs[w].refreshToken # NoToken
            /\ \A l \in Clients \ {w} :
                 procs[l].status = 403 /\ procs[l].refreshToken = NoToken
       /\ Cardinality(minted \cap LiveSet(users, id)) = 1
       /\ procs[1].token \notin LiveSet(users, id)

C17_Witness ==
  /\ RacedAndFinished
  /\ procs[1].__v = procs[2].__v
  /\ procs[1].status = 200 /\ procs[2].status = 403
  /\ procs[1].refreshToken \in LiveSet(users, procs[1].user)
  /\ users[procs[1].user].__v = procs[1].__v + 2

(***************************************************************************)
(* Properties of request validation, over SpecApp.  req holds the body of  *)
(* the last request, resp.before the store it found.                       *)
(***************************************************************************)
\* the username belongs to a user of the store
Taken(store, username) == \E id \in DOMAIN store : store[id].username = username

\* the register body has all four fields
Complete == undefined \notin {req.username, req.password, req.email, req.file}

\* no token pair is in the response
NoTokensSent == resp.accessToken = NoToken /\ resp.refreshToken = NoToken

\* C18: missing credentials.  A register request that lacks username,
\* password, email or avatar, a login request that lacks username or
\* password, and a refresh-token or logout request that lacks refreshToken
\* are answered 400, and the store is as the request found it.
C18_MissingCredential ==
  /\ (req.op = "register" /\ resp.op = "register" /\ ~Complete)
       => resp.status = 400 /\ users = resp.before
  /\ (req.op = "login" /\ resp.op = "login"
        /\ undefined \in {req.username, req.password})
       => resp.status = 400 /\ users = resp.before /\ NoTokensSent
  /\ (resp.op \in {"refresh", "logout"} /\ resp.token = NoToken)
       => resp.status = 400 /\ users = resp.before /\ NoTokensSent

\* a login without password for a user who is registered and has a session
C18_Witness ==
  /\ req.op = "login" /\ resp.op = "login"
  /\ req.password = undefined
  /\ Taken(resp.before, req.username)
  /\ \E id \in DOMAIN users : users[id].tokens # <<>>
  /\ resp.status = 400

\* C19 as stated: a register request (with all its fields) whose username
\* belongs to a stored user is answered 409 and the store is unchanged.
C19_AsStated ==
  (req.op = "register" /\ resp.op = "register" /\ Complete
     /\ Taken(resp.before, req.username))
    => resp.status = 409 /\ users = resp.before

\* C19, amended: a register request whose username belongs to a stored user
\* changes nothing in the store (no user added, no field or live set of any
\* user changed).  It is answered 409 when its avatar is of a supported type
\* (png, jpeg); with an avatar of another type it is answered 400, before
\* the username is looked up.
C19_UsernameTaken ==
  (req.op = "register" /\ resp.op = "register" /\ Complete
     /\ Taken(resp.before, req.username))
    => /\ users = resp.before
       /\ DOMAIN users = DOMAIN resp.before
       /\ req.file \in {"image/png", "image/jpeg"} => resp.status = 409
       /\ req.file \notin {"image/png", "image/jpeg"} => resp.status = 400

C19_Witness ==
  /\ req.op = "register" /\ resp.op = "register"
  /\ Taken(resp.before, req.username)
  /\ resp.status = 409
  /\ \E id \in DOMAIN users : users[id].username = req.username /\ users[id].tokens # <<>>

\* the request names a stored user and its password is not the one hashed
WrongPassword ==
  \E id \in DOMAIN resp.before :
    /\ resp.before[id].username = req.username
    /\ resp.before[id].password # BcryptHash(req.password)

\* C20: a login request with a username that no stored user has, or with a
\* password that does not match the hash stored for the username, is answered
\* 401, carries no tokens and leaves the store, every live set included, as
\* it found it.  (The request carries both fields: one that lacks a field is
\* the missing-credential case, answered 400.)
C20_LoginRejected ==
  (req.op = "login" /\ resp.op = "login"
     /\ req.username # undefined /\ req.password # undefined
     /\ (~Taken(resp.before, req.username) \/ WrongPassword))
    => /\ resp.status = 401
       /\ NoTokensSent
       /\ users = resp.before

\* a wrong password for a user who has a session
C20_Witness ==
  /\ req.op = "login" /\ resp.op = "login"
  /\ req.password # undefined /\ WrongPassword
  /\ resp.status = 401
  /\ \E id \in DOMAIN users : users[id].username = req.username /\ users[id].tokens # <<>>

(***************************************************************************)
(* Recovery after a revocation, over SpecRecover.                          *)
(***************************************************************************)
\* the last request is a login with the password of a stored user
CorrectLogin ==
  /\ req.op = "login" /\ resp.op = "login"
  /\ \E id \in DOMAIN resp.before :
       /\ resp.before[id].username = req.username
       /\ BcryptCompare(req.password, resp.before[id].password)

\* a reuse detection has struck a token of the user from the live set
SufferedRevocation(id) == \E t \in invalidated : t._id = id

\* C21: recovery after revocation.  A login with correct credentials for a
\* user whose live set was emptied by a reuse detection returns 200, ends the
\* revocation and leaves the refresh token of the response as the only live
\* token of the user, one that verifyRefreshToken accepts; a refresh-token
\* request presenting a live, unexpired token of a user who suffered a
\* revocation returns 200 with the next token, and a second request with the
\* same token does not.
C21_Recovery ==
  /\ (CorrectLogin /\ req.wasRevoked)
       => LET id == resp._id IN
          /\ resp.status = 200
          /\ resp.before[id].tokens = <<>>
          /\ users[id].tokens = <<resp.refreshToken>>
          /\ id \notin revoked
          /\ verifyRefreshToken(users, resp.refreshToken,
                                resp.refreshToken.iat).settled = "resolve"
  /\ (IsRequest("refresh") /\ resp.verified /\ WasLive
        /\ SufferedRevocation(resp.token._id))
       => /\ resp.status = 200
          /\ resp.refreshToken \in LiveSet(users, resp.token._id)
          /\ resp.token \notin LiveSet(users, resp.token._id)
  /\ (IsRequest("refresh") /\ resp.wasConsumed) => resp.status # 200

\* the first session was struck by a reuse detection; the token of the login
\* that followed has been rotated and its successor is the live set
C21_Witness ==
  /\ IsRequest("refresh") /\ resp.status = 200
  /\ FirstSession(env).refreshToken \in invalidated
  /\ resp.token.random > FirstSession(env).refreshToken.random
  /\ resp.before[resp.token._id].tokens = <<resp.token>>
  /\ users[resp.token._id].tokens = <<resp.refreshToken>>

(***************************************************************************)
(* The kind of a token, over SpecAuth.  The payloads of the two tokens of  *)
(* a pair differ in nothing but exp.                                       *)
(***************************************************************************)
\* the token was signed by generateTokens with the refresh window
IsRefreshToken(token) ==
  /\ token \in issued
  /\ token.exp - token.iat = env.REFRESH_TOKEN_EXPIRES
  /\ token.exp - token.iat # env.ACCESS_TOKEN_EXPIRES

\* C22: no token-type discrimination.  A refresh token presented in the
\* Authorization header of a protected route is treated as an access token
\* is: while it is unexpired it passes authenticate, the handler runs and
\* sees the _id of its payload as req.user; from its own expiry on it is
\* refused with 403.  Whether it is in a live set plays no part.
C22_NoTypeCheck ==
  (IsAuthRequest /\ IsRefreshToken(HeaderToken)) =>
    /\ req.at < HeaderToken.exp
         => /\ req.handled
            /\ req.user = HeaderToken._id
            /\ resp.status \in {200, 400, 409}
    /\ req.at >= HeaderToken.exp => ~req.handled /\ resp.status = 403
    /\ authenticate(req.authorization, req.at) =
         authenticate(Header("JWT", <<[HeaderToken EXCEPT
                        !.iat = HeaderToken.exp - env.ACCESS_TOKEN_EXPIRES]>>),
                      req.at)

\* PUT /users answers 200 to a refresh token at a time when the access token
\* of the same pair has expired
C22_Witness ==
  /\ IsAuthRequest /\ IsRefreshToken(HeaderToken)
  /\ req.handled /\ resp.status = 200
  /\ AccessOf(HeaderToken) \in issued
  /\ req.at >= AccessOf(HeaderToken).exp
  /\ users[HeaderToken._id].avatar = "image/jpeg"

(***************************************************************************)
(* Properties of the resource routes, over SpecPosts.  resp.db holds the   *)
(* collections the last request found, resp.postID the id of its path and  *)
(* req.user the user that authenticate patched to the request.             *)
(***************************************************************************)
\* the comments and the likes of a collection that reference the post
CommentsOf(comments, postID) == {c \in DOMAIN comments : comments[c].postID = postID}
LikesOf(likes, postID) == {like \in BagToSet(likes) : like._id.postID = postID}

\* C23: cascade of DELETE /posts/{id}.  For a post of the store the request
\* is answered 200, and afterwards the post, every comment and every like
\* that referenced it when the request arrived are gone from the store,
\* while every other post, comment and like is kept; for an id that no post
\* has it is answered 404 and the three collections are unchanged.
C23_DeleteCascade ==
  (resp.op = "deletePost" /\ req.handled) =>
    LET id == resp.postID IN
    /\ id \in DOMAIN resp.db.posts
         => /\ resp.status = 200
            /\ id \notin DOMAIN db.posts
            /\ CommentsOf(db.comments, id) = {}
            /\ LikesOf(db.likes, id) = {}
            /\ DOMAIN db.posts = DOMAIN resp.db.posts \ {id}
            /\ DOMAIN db.comments =
                 DOMAIN resp.db.comments \ CommentsOf(resp.db.comments, id)
            /\ BagToSet(db.likes) =
                 BagToSet(resp.db.likes) \ LikesOf(resp.db.likes, id)
    /\ id \notin DOMAIN resp.db.posts
         => resp.status = 404 /\ db = resp.db

\* a post with a comment and the likes of both users is deleted; the like of
\* another post stays
C23_Witness ==
  /\ resp.op = "deletePost" /\ req.handled /\ resp.status = 200
  /\ CommentsOf(resp.db.comments, resp.postID) # {}
  /\ Cardinality(LikesOf(resp.db.likes, resp.postID)) = 2
  /\ BagToSet(db.likes) # {}
  /\ db.comments = EmptyStore

\* the like of the last request: the user of the token and the post of the path
RequestedLike == [_id |-> [userID |-> req.user, postID |-> resp.postID]]

\* C24: at most one like per user and post.  The likes collection never
\* holds two documents with the same {userID, postID}.  POST /likes/{postID}
\* is answered 201 and adds that one like when the user had none on the
\* post; when the user had one it is answered 409 and the store is as it
\* was.  GET /likes/{postID} is answered 200 with liked = true exactly when
\* the like of the user on the post is in the store, and changes nothing.
C24_OneLike ==
  /\ \A like \in BagToSet(db.likes) : CopiesIn(like, db.likes) = 1
  /\ (resp.op = "likePost" /\ req.handled) =>
       /\ ~BagIn(RequestedLike, resp.db.likes)
            => /\ resp.status = 201
               /\ db.likes = resp.db.likes (+) SetToBag({RequestedLike})
               /\ db.posts = resp.db.posts /\ db.comments = resp.db.comments
       /\ BagIn(RequestedLike, resp.db.likes)
            => resp.status = 409 /\ db = resp.db
  /\ (resp.op = "getLike" /\ req.handled) =>
       /\ resp.status = 200
       /\ resp.liked <=> BagIn(RequestedLike, db.likes)
       /\ db = resp.db

\* a user who likes a post that both users like already is answered 409
C24_Witness ==
  /\ resp.op = "likePost" /\ req.handled /\ resp.status = 409
  /\ Cardinality(LikesOf(db.likes, resp.postID)) = 2
  /\ resp.postID \in DOMAIN db.posts

(***************************************************************************)
(* Properties of the steps of concurrent requests, over SpecRace.          *)
(***************************************************************************)
\* the request of client c has been answered 200
Sent200(c) == c \in DOMAIN procs /\ procs[c].pc = "done" /\ procs[c].status = 200

\* the refresh-token request of client c has got as far as pc
RefreshAt(c, pcs) ==
  /\ c \in DOMAIN procs
  /\ procs[c].op = "refresh"
  /\ procs[c].pc \in pcs

\* C25: the order of the steps of a successful refresh-token request.  From
\* the moment its removal is saved the presented token is not in the store:
\* not when the new pair is minted, not when the response is sent.  Nothing
\* is minted before that save.  The response is sent after the push of the
\* new token was saved: the document has then been saved twice since it was
\* read, and it holds the new token unless a reuse detection of another
\* request has emptied the set in between.
C25_RefreshOrder ==
  \A c \in Clients :
    /\ RefreshAt(c, {"received", "found"}) => procs[c].refreshToken = NoToken
    /\ RefreshAt(c, {"verified"})
         => /\ procs[c].token \notin LiveSet(users, procs[c].user)
            /\ procs[c].refreshToken = NoToken
            /\ users[procs[c].user].__v >= procs[c].__v + 1
    /\ (RefreshAt(c, {"saved"}) \/ (RefreshAt(c, {"done"}) /\ Sent200(c)))
         => /\ procs[c].token \notin LiveSet(users, procs[c].user)
            /\ procs[c].refreshToken # NoToken
            /\ users[procs[c].user].__v >= procs[c].__v + 2
            /\ \/ procs[c].refreshToken \in LiveSet(users, procs[c].user)
               \/ procs[c].refreshToken \in consumed \cup invalidated
    /\ (RefreshAt(c, {"done"}) /\ ~Sent200(c)) => procs[c].refreshToken = NoToken

\* a refresh is answered 200 after a login of the other client pushed its
\* token in between: the store holds both new tokens
C25_Witness ==
  /\ RefreshAt(1, {"done"}) /\ Sent200(1)
  /\ 2 \in DOMAIN procs /\ procs[2].op = "login" /\ procs[2].pc = "saved"
  /\ users[1].__v = procs[1].__v + 3
  /\ LiveSet(users, 1) = {procs[1].refreshToken, procs[2].refreshToken}

\* the refresh tokens that a push has saved in the document of the user:
\* that of the first session, those of the 200 responses, and those of the
\* requests that have saved their push and not yet answered
Pushed ==
  {FirstSession(env).refreshToken}
    \cup {r.refreshToken : r \in rotated}
    \cup {procs[c].refreshToken : c \in {d \in DOMAIN procs : procs[d].pc = "saved"}}

\* C29: no lost sessions.  Under every interleaving of the steps of login,
\* refresh-token and logout requests of one user, a refresh token that was
\* pushed to the stored live set, and so every refresh token of a 200
\* response, is in the stored set until a request that presents it has saved
\* its removal or the save of a reuse detection has emptied the set: the
\* save of one request never drops a token that another request added.
C29_NoLostSession ==
  /\ \A t \in Pushed :
       \/ t \in LiveSet(users, t._id)
       \/ t \in consumed
       \/ t \in invalidated
  /\ \A t \in consumed \cup invalidated : t \notin LiveSet(users, t._id)
  /\ \A c \in DOMAIN procs :
       (procs[c].pc = "done" /\ procs[c].status = 403
          /\ Includes(procs[c].tokens, procs[c].token)
          /\ procs[c].token \notin consumed \cup invalidated)
         => procs[c].token \in LiveSet(users, procs[c].user)

\* a login saved its push between the read and the save of a refresh: the
\* refresh is answered 403, its token and the token of the login are live
C29_Witness ==
  /\ RefreshAt(1, {"done"}) /\ procs[1].status = 403
  /\ Includes(procs[1].tokens, procs[1].token)
  /\ procs[1].token \in LiveSet(users, 1)
  /\ Sent200(2) /\ procs[2].op = "login"
  /\ procs[2].refreshToken \in LiveSet(users, 1)

(***************************************************************************)
(* An access token in the place of a refresh token, over SpecEnv.          *)
(***************************************************************************)
\* the token was signed by generateTokens with the access window
IsAccessToken(token) ==
  /\ token \in issued
  /\ token.exp - token.iat = env.ACCESS_TOKEN_EXPIRES

\* the last request presented an unexpired access token to refresh-token or
\* to logout
AccessTokenPresented ==
  /\ resp.op \in {"refresh", "logout"}
  /\ IsAccessToken(resp.token)
  /\ resp.verified

\* C27 as stated: an unexpired access token presented to refresh-token or
\* logout never yields success; the request fails and the live set of the
\* user named in the token is emptied.
C27_AsStated ==
  AccessTokenPresented
    => /\ resp.status # 200
       /\ NamedUserFound => users[resp.token._id].tokens = <<>>

\* C27, amended: when the access window differs from the refresh window, an
\* access token is never in a live set, and an unexpired one presented to
\* refresh-token or logout is answered 403 and empties the live set of the
\* user it names (when that user exists), leaving other users alone.  When
\* the two windows are equal, the access token is the same string as the
\* refresh token of its pair and is treated as that refresh token: 200 and
\* removal of that one token while it is live, revocation once it is not.
C27_AccessTokenRevokes ==
  /\ env.ACCESS_TOKEN_EXPIRES # env.REFRESH_TOKEN_EXPIRES
       => \A t \in issued : IsAccessToken(t) => ~LiveAnywhere(t)
  /\ AccessTokenPresented
       => LET id == resp.token._id IN
          /\ env.ACCESS_TOKEN_EXPIRES # env.REFRESH_TOKEN_EXPIRES
               => /\ ~WasLive
                  /\ resp.status = 403
                  /\ NamedUserFound => users[id].tokens = <<>>
                  /\ OthersUntouched(id)
          /\ env.ACCESS_TOKEN_EXPIRES = env.REFRESH_TOKEN_EXPIRES
               => /\ WasLive => /\ resp.status = 200
                                /\ resp.token \notin LiveSet(users, id)
                  /\ (NamedUserFound /\ ~WasLive)
                       => resp.status = 403 /\ users[id].tokens = <<>>

\* the access token of one session, sent to logout, is answered 403 and
\* ends the two sessions of the user
C27_Witness ==
  /\ env.ACCESS_TOKEN_EXPIRES # env.REFRESH_TOKEN_EXPIRES
  /\ AccessTokenPresented /\ resp.op = "logout"
  /\ resp.status = 403
  /\ Len(resp.before[resp.token._id].tokens) = 2
  /\ users[resp.token._id].tokens = <<>>

(***************************************************************************)
(* The life of a live set, and the isolation of one user's set from the    *)
(* requests of another.                                                    *)
(***************************************************************************)
\* tokens with every occurrence of token taken out
Without(tokens, token) == SelectSeq(tokens, LAMBDA t : t # token)

\* what one request (the step from this state to the next, recorded in
\* resp') does to the live set of each user
FrameStep ==
  \A id \in DOMAIN users' :
    IF id \notin DOMAIN users
    THEN /\ resp'.op = "register" /\ resp'.status = 201 /\ resp'._id = id
         /\ users'[id].tokens = <<>>
    ELSE LET old == users[id].tokens
             new == users'[id].tokens
             r == resp'
         IN
         CASE r.op = "login" /\ r.status = 200 /\ r._id = id ->
                /\ r.refreshToken \notin issued
                /\ new = Append(old, r.refreshToken)
           [] r.op = "refresh" /\ r.status = 200 /\ r.token._id = id ->
                /\ Includes(old, r.token)
                /\ r.refreshToken \notin issued
                /\ new = Append(Without(old, r.token), r.refreshToken)
           [] r.op = "logout" /\ r.status = 200 /\ r.token._id = id ->
                /\ Includes(old, r.token)
                /\ new = Without(old, r.token)
           [] r.op \in {"refresh", "logout"} /\ r.status = 403 /\ r.token._id = id ->
                /\ ~Includes(old, r.token)
                /\ new = <<>>
           [] OTHER -> new = old

\* C26: lifecycle frame.  A live set is empty when its user is registered;
\* a login answered 200 appends the refresh token it minted; a refresh-token
\* request answered 200 takes out the presented token and appends the one it
\* minted; a logout answered 200 takes out the presented token; a detected
\* reuse (403 for a token absent from the set of the user it names) empties
\* the set; every other request (a failed login, a rejected or ignored
\* token, PUT /users, every posts, comments and likes request, with or
\* without a token that authenticate accepts) leaves every live set as it
\* was.
C26_LifecycleFrame == [][FrameStep]_vars

\* PUT /users has replaced the avatar of a user with a session, a like was
\* stored, and the live set is what it was
C26_Witness ==
  /\ resp.op = "putUser" /\ resp.status = 200
  /\ req.handled
  /\ resp._id \in DOMAIN users
  /\ users[resp._id].avatar # resp.before[resp._id].avatar
  /\ users[resp._id].tokens # <<>>
  /\ users[resp._id].tokens = resp.before[resp._id].tokens
  /\ db.likes # EmptyBag

\* the user a login request names by its credentials (null when none)
NamedByCredentials == findOneByUsername(resp.before, req.username)

\* nothing but the live set of user id differs from what the request found
OnlyLiveSetOf(id) ==
  /\ OthersUntouched(id)
  /\ id \in DOMAIN users => users[id] = [resp.before[id] EXCEPT !.tokens = users[id].tokens]

\* C28: cross-user isolation.  A login request changes at most the live set
\* of the user whose username it carries, a refresh-token or logout request
\* at most the live set of the user whose id is in the presented token;
\* every other user, and every other field, is as the request found it.  So
\* a reuse detection that empties the set of one user removes no token of
\* another.
C28_Isolation ==
  /\ resp.op = "login" => OnlyLiveSetOf(NamedByCredentials)
  /\ resp.op \in {"refresh", "logout"} /\ resp.token # NoToken
       => OnlyLiveSetOf(resp.token._id)

\* a reuse detection has emptied the set of user 1 while user 2 holds two
\* sessions
C28_Witness ==
  /\ resp.op = "refresh" /\ resp.status = 403
  /\ resp.token._id = 1
  /\ resp.before[1].tokens # <<>>
  /\ users[1].tokens = <<>>
  /\ Len(users[2].tokens) = 2
  /\ users[2] = resp.before[2]

(***************************************************************************)
(* The marks of the App component.                                         *)
(***************************************************************************)
Marks(b, player) == Cardinality({idx \in DOMAIN b : b[idx] = player})

====
